---- MODULE Spec2Model ----
(***************************************************************************)
(* State-machine model of the slot-miner miniapp's two cores:              *)
(*   - the global spin/win ingestion hook useGlobalSpin, in its polling    *)
(*     form (src/components/donut-icon.tsx) and its push form              *)
(*     (src/hooks/use-global-spin.ts);                                     *)
(*   - the local spin lifecycle of DonutardioPage (src/unnamed/part_001).  *)
(* Every await of the source is a step boundary: the code before it is one *)
(* atomic action, the code after it another.                               *)
(***************************************************************************)
EXTENDS Integers, Sequences, FiniteSets, TLC

\* ---------------------------------------------------------------- bounds
\* Highest block the chain reaches.
MaxBlock == 4
\* Number of poll ticks (calls of pollForEvents) in one session.
MaxTicks == 3
\* Number of push deliveries (calls of an onLogs handler) in one session.
MaxPushes == 3
\* Number of clicks on the spin button (calls of handleSpin) in one session.
MaxClicks == 3
\* Highest prizePool and pendingEmissions, highest ups (units per second)
\* getRig reports, and the seconds the interpolation runs between two reads.
MaxPool == 3
MaxRate == 2
MaxSeconds == 4
\* A currentBlock below both lookbacks and a block shortly before it, for
\* the lookback window of a young chain.
YoungChainBlock == 1000
YoungChainWinBlock == 950
\* Highest unit balance and highest epoch id getRig reports.
MaxBalance == 2
MaxEpoch == 2

\* ------------------------------------------------------------- constants
\* donut-icon.tsx: BigInt(3600) blocks of lookback on the first poll.
LOOKBACK_POLL == 3600
\* use-global-spin.ts: BigInt(1800) blocks of lookback in fetchRecentWin.
LOOKBACK_PUSH == 1800

\* An optional value (T | null): the empty sequence or a one-element one.
None == <<>>
Some(x) == <<x>>

\* Concurrent invocations of pollForEvents (setInterval does not wait for the
\* previous async call to finish).
Pollers == {"p1", "p2"}

\* ------------------------------------------------------- the chain's logs
SLOT_SYMBOLS ==
    << [name |-> "Cherry",  oddsBps |-> 100,  tier |-> "small"],
       [name |-> "Lemon",   oddsBps |-> 200,  tier |-> "small"],
       [name |-> "Bar",     oddsBps |-> 500,  tier |-> "medium"],
       [name |-> "Bell",    oddsBps |-> 1000, tier |-> "big"],
       [name |-> "Seven",   oddsBps |-> 2500, tier |-> "mega"],
       [name |-> "Diamond", oddsBps |-> 5000, tier |-> "jackpot"] >>

\* A lookup that falls back to the last table entry instead of the first.
getSymbolFromOdds_LastEntry(oddsBps) ==
    LET hits == SelectSeq(SLOT_SYMBOLS, LAMBDA s : s.oddsBps = oddsBps)
    IN IF hits # <<>> THEN Head(hits) ELSE SLOT_SYMBOLS[Len(SLOT_SYMBOLS)]

\* SLOT_SYMBOLS.find(s => s.oddsBps === oddsBps) ?? SLOT_SYMBOLS[0]
getSymbolFromOdds(oddsBps) ==
    LET hits == SelectSeq(SLOT_SYMBOLS, LAMBDA s : s.oddsBps = oddsBps)
    IN IF hits # <<>> THEN Head(hits) ELSE SLOT_SYMBOLS[1]

\* The spinner of an epoch and the odds its win pays: two players alternate.
SpinnerOf(e) == IF e % 2 = 1 THEN "0xA1" ELSE "0xB2"
OddsOf(e) == IF e % 2 = 1 THEN 5000 ELSE 300

\* The log of block b: odd blocks hold the Rig__Spin of a new epoch, even
\* blocks the Rig__Win of the epoch spun in the block before.
LogAt(b) ==
    IF b % 2 = 1
    THEN [kind |-> "Spin", spinner |-> SpinnerOf((b + 1) \div 2),
          epochId |-> (b + 1) \div 2, oddsPercent |-> 0,
          transactionHash |-> b, blockNumber |-> b]
    ELSE [kind |-> "Win", spinner |-> SpinnerOf(b \div 2),
          epochId |-> b \div 2, oddsPercent |-> OddsOf(b \div 2),
          transactionHash |-> b, blockNumber |-> b]

\* publicClient.getLogs({event, fromBlock, toBlock}): the logs of one event in
\* [from, to], in block order.
getLogs(kind, from, to) ==
    SelectSeq([b \in 1..to |-> LogAt(b)],
              LAMBDA l : l.kind = kind /\ l.blockNumber >= from)

\* `spin-${spinner}-${epochId}` and `win-${spinner}-${epochId}-${txHash}`
SpinId(l) == <<"spin", l.spinner, l.epochId>>
WinId(l) == <<"win", l.spinner, l.epochId, l.transactionHash>>

VARIABLES
    impl,                   \* which useGlobalSpin is mounted: "poll" | "push"
    head,                   \* the chain's current block number
    activeSpin,             \* useState<GlobalSpinState | null>
    lastWin,                \* useState<GlobalWinState | null>
    isGlobalSpinning,       \* useState(false)
    showWinResult,          \* useState(false)
    lastProcessedBlockRef,  \* useRef<bigint | null>
    lastWinIdRef,           \* useRef<string | null>
    spinTimeoutRef,         \* the armed liveness timeout: the spin id it guards
    winDisplayRef,          \* whether a display timeout is armed
    pc,                     \* per poller: where pollForEvents is suspended
    curBlock,               \* per poller: the currentBlock it read
    fromBlk,                \* per poller: its fromBlock
    queue,                  \* per poller: logs of the batch still to process
    item,                   \* per poller: the log whose user lookup is pending
    ticks,                  \* poll ticks so far
    pushPending,            \* push handlers suspended on fetchUserByAddress
    pushes,                 \* push deliveries so far
    frwPc,                  \* fetchRecentWin: where it is suspended
    frwBlock,               \* fetchRecentWin: the currentBlock it read
    applied,                \* history: ids of the occurrences applied so far
    ended,                  \* history: how polls ended (backfill / failed marks)
    stale,                  \* history: spin lookups and timer overtaken by a Win
    localSpinState,         \* useState<SpinState>('idle')
    pendingEpochId,         \* useState<bigint | null>(null)
    preSpinBalanceRef,      \* useRef<bigint | null>(null)
    vrfTimeoutRef,          \* "null" | "armed" | "fired": the handle it holds
    leakedVrf,              \* armed VRF timeouts no ref points to any more
    balancePollRef,         \* "null" | "armed"
    leakedPolls,            \* running balance intervals no ref points to
    address,                \* useAccount().address
    rigState,               \* the latest getRig result, or none
    txHash,                 \* useWriteContract().data: a hash is known
    receipt,                \* "none" | "success" | "reverted"
    refetchRequested,       \* refetchRigState() was called and not yet served
    hpc,                    \* per handleSpin call: where it is suspended
    hsnap,                  \* per handleSpin call: the rigState it closed over
    clicks,                 \* handleSpin calls so far
    lev,                    \* history: the last lifecycle event, <<kind, detail>>
    resolved,               \* history: how the last action was resolved
    torn,                   \* the session is torn down (the components unmounted)
    poolRig,                \* the prizePool, pendingEmissions and ups of rigState
    interpolatedPrizePool,  \* useState<bigint | null>(null)
    secondsElapsed          \* history: interval ticks since the effect last ran

ingestVars ==
    << impl, head, activeSpin, lastWin, isGlobalSpinning, showWinResult,
       lastProcessedBlockRef, lastWinIdRef, spinTimeoutRef, winDisplayRef,
       pc, curBlock, fromBlk, queue, item, ticks, pushPending, pushes,
       frwPc, frwBlock, applied, ended, stale >>

lifeVars ==
    << localSpinState, pendingEpochId, preSpinBalanceRef, vrfTimeoutRef,
       leakedVrf, balancePollRef, leakedPolls, address, rigState, txHash,
       receipt, refetchRequested, hpc, hsnap, clicks, lev, resolved,
       torn >>

poolVars == << poolRig, interpolatedPrizePool, secondsElapsed >>

localVars == << lifeVars, poolVars >>

vars == << ingestVars, localVars >>

\* ------------------------------------------- GlobalActivityState as a value
GS ==
    [activeSpin |-> activeSpin, lastWin |-> lastWin,
     isGlobalSpinning |-> isGlobalSpinning, showWinResult |-> showWinResult,
     lastWinIdRef |-> lastWinIdRef, spinTimeoutRef |-> spinTimeoutRef,
     winDisplayRef |-> winDisplayRef]

SetGS(g) ==
    /\ activeSpin' = g.activeSpin
    /\ lastWin' = g.lastWin
    /\ isGlobalSpinning' = g.isGlobalSpinning
    /\ showWinResult' = g.showWinResult
    /\ lastWinIdRef' = g.lastWinIdRef
    /\ spinTimeoutRef' = g.spinTimeoutRef
    /\ winDisplayRef' = g.winDisplayRef

newSpin(l) ==
    [id |-> SpinId(l), spinner |-> l.spinner, epochId |-> l.epochId,
     user |-> FALSE]

newWin(l) ==
    [id |-> WinId(l), spinner |-> l.spinner, epochId |-> l.epochId,
     oddsBps |-> l.oddsPercent, symbol |-> getSymbolFromOdds(l.oddsPercent),
     user |-> FALSE]

\* The spin patch without its comparison of the ids.
PatchSpinUser_AnyId(g, id, ok) ==
    IF ok /\ g.activeSpin # None
    THEN [g EXCEPT !.activeSpin = Some([g.activeSpin[1] EXCEPT !.user = TRUE])]
    ELSE g

\* setActiveSpin(prev => prev?.id === id ? { ...prev, user } : prev)
PatchSpinUser(g, id, ok) ==
    IF ok /\ g.activeSpin # None /\ g.activeSpin[1].id = id
    THEN [g EXCEPT !.activeSpin = Some([g.activeSpin[1] EXCEPT !.user = TRUE])]
    ELSE g

\* setLastWin(prev => prev?.id === winId ? { ...prev, user } : prev)
PatchWinUser(g, id, ok) ==
    IF ok /\ g.lastWin # None /\ g.lastWin[1].id = id
    THEN [g EXCEPT !.lastWin = Some([g.lastWin[1] EXCEPT !.user = TRUE])]
    ELSE g

\* ------------------------------------- donut-icon.tsx: the Apply routines
\* processWinEvent's dedup check: lastWinIdRef.current === winId
IsDupWin(g, l) == g.lastWinIdRef = Some(WinId(l))

\* processWinEvent with every occurrence treated as new.
processWinEvent_AlwaysNew(g, l, isNew) ==
    [g EXCEPT !.lastWinIdRef = Some(WinId(l)), !.spinTimeoutRef = None,
              !.activeSpin = None, !.isGlobalSpinning = FALSE,
              !.lastWin = Some(newWin(l)),
              !.showWinResult = TRUE,
              !.winDisplayRef = TRUE]

\* processWinEvent without setActiveSpin(null) and setIsGlobalSpinning(false).
processWinEvent_KeepSpin(g, l, isNew) ==
    [g EXCEPT !.lastWinIdRef = Some(WinId(l)),
              !.spinTimeoutRef = None,
              !.lastWin = Some(newWin(l)),
              !.showWinResult = IF isNew THEN TRUE ELSE @,
              !.winDisplayRef = IF isNew THEN TRUE ELSE @]

\* processWinEvent up to its await (the caller checked IsDupWin): remember
\* the id, clear the active spin and its timeout, set lastWin, and for a new
\* win show the highlight and (re)arm the display timeout.
processWinEvent(g, l, isNew) ==
    [g EXCEPT !.lastWinIdRef = Some(WinId(l)),
              !.spinTimeoutRef = None,
              !.activeSpin = None,
              !.isGlobalSpinning = FALSE,
              !.lastWin = Some(newWin(l)),
              !.showWinResult = IF isNew THEN TRUE ELSE @,
              !.winDisplayRef = IF isNew THEN TRUE ELSE @]

\* processSpinEvent without setShowWinResult(false).
processSpinEvent_KeepHighlight(g, l) ==
    [g EXCEPT !.activeSpin = Some(newSpin(l)),
              !.isGlobalSpinning = TRUE]

\* processSpinEvent up to its await: no dedup check at all.
processSpinEvent(g, l) ==
    [g EXCEPT !.activeSpin = Some(newSpin(l)),
              !.isGlobalSpinning = TRUE,
              !.showWinResult = FALSE]

\* processSpinEvent after its await: patch the user, then clear the previous
\* liveness timeout and arm one for this spin.
processSpinEventResume(g, l, ok) ==
    [PatchSpinUser(g, SpinId(l), ok) EXCEPT !.spinTimeoutRef = Some(SpinId(l))]

\* The wins of a batch that processWinEvent will not skip first: every log
\* whose id equals lastWinIdRef returns at once, without an await.
RECURSIVE DropDups(_, _)
DropDups(q, g) ==
    IF q = <<>> THEN q
    ELSE IF IsDupWin(g, Head(q)) THEN DropDups(Tail(q), g)
    ELSE q

\* ------------------------------------------------------- history helpers
\* The marks left by a first poll that set the cursor to block c and by a
\* normal poll of [f, c] that ended in its catch.
BackfillMark(c) == <<"backfill", c>>
FailedMark(f, c) == <<"failed", f, c>>
\* The mark left by a tick that returned at the head h without a fetch.
NoopMark(h) == <<"noop", h>>

\* A Win is applied: clearTimeout cancels the armed liveness timeout, and
\* every spin whose lookup is still pending has now been overtaken by a Win.
WinSupersedes ==
    [poll |-> stale.poll \cup {p \in DOMAIN pc : pc[p] = "spinUser"},
     push |-> stale.push \cup {b \in pushPending : LogAt(b).kind = "Spin"},
     timer |-> FALSE]

\* The lookup of the spin applied by poll p resolves and its timeout is
\* armed: the timer is overtaken if that spin was.
ArmedByPoll(p) ==
    [stale EXCEPT !.poll = @ \ {p}, !.timer = p \in stale.poll]

\* The same for the push handler of the log of block b.
ArmedByPush(b) ==
    [stale EXCEPT !.push = @ \ {b}, !.timer = b \in stale.push]

\* --------------------------------------------------------- poller helpers
PollerIdle(p) ==
    /\ pc' = [pc EXCEPT ![p] = "idle"]
    /\ curBlock' = [curBlock EXCEPT ![p] = 0]
    /\ fromBlk' = [fromBlk EXCEPT ![p] = 0]
    /\ queue' = [queue EXCEPT ![p] = <<>>]
    /\ item' = [item EXCEPT ![p] = None]

PollerAt(p, where, q, it) ==
    /\ pc' = [pc EXCEPT ![p] = where]
    /\ queue' = [queue EXCEPT ![p] = q]
    /\ item' = [item EXCEPT ![p] = it]
    /\ UNCHANGED << curBlock, fromBlk >>

pushFrame == << pushPending, pushes, frwPc, frwBlock, localVars >>

\* The wins of a normal poll from queue q on, in state g: apply the first
\* one that is no duplicate and suspend on its lookup, or finish the poll.
WinLoop(p, g, q) ==
    LET rest == DropDups(q, g)
    IN IF rest = <<>>
       THEN /\ SetGS(g)
            /\ lastProcessedBlockRef' = Some(curBlock[p])
            /\ PollerIdle(p)
            /\ UNCHANGED << applied, ended, stale >>
       ELSE /\ SetGS(processWinEvent(g, Head(rest), TRUE))
            /\ PollerAt(p, "winUser", Tail(rest), Some(Head(rest)))
            /\ applied' = applied \cup {WinId(Head(rest))}
            /\ stale' = WinSupersedes
            /\ UNCHANGED << lastProcessedBlockRef, ended >>

\* ------------------------------------------ donut-icon.tsx: pollForEvents
\* A tick whose first poll takes currentBlock - 3600 as fromBlock as it is.
PollTick_NoClamp(p) ==
    /\ impl = "poll" /\ pc[p] = "idle" /\ ticks < MaxTicks /\ ~torn
    /\ ticks' = ticks + 1
    /\ IF lastProcessedBlockRef = None
       THEN /\ pc' = [pc EXCEPT ![p] = "bfLogs"]
            /\ curBlock' = [curBlock EXCEPT ![p] = head]
            /\ fromBlk' = [fromBlk EXCEPT ![p] = head - LOOKBACK_POLL]
            /\ UNCHANGED ended
       ELSE LET fromBlock == lastProcessedBlockRef[1] + 1
            IN IF fromBlock > head
               THEN /\ UNCHANGED << pc, curBlock, fromBlk >>
                    /\ ended' = ended \cup {NoopMark(head)}
               ELSE /\ pc' = [pc EXCEPT ![p] = "spinLogs"]
                    /\ curBlock' = [curBlock EXCEPT ![p] = head]
                    /\ fromBlk' = [fromBlk EXCEPT ![p] = fromBlock]
                    /\ UNCHANGED ended
    /\ UNCHANGED << impl, head, activeSpin, lastWin, isGlobalSpinning,
                    showWinResult, lastProcessedBlockRef, lastWinIdRef,
                    spinTimeoutRef, winDisplayRef, queue, item, applied,
                    stale >>
    /\ UNCHANGED pushFrame

\* A tick that asks for the logs above the cursor without comparing
\* fromBlock with currentBlock.
PollTick_NoGuard(p) ==
    /\ impl = "poll" /\ pc[p] = "idle" /\ ticks < MaxTicks /\ ~torn
    /\ ticks' = ticks + 1
    /\ IF lastProcessedBlockRef = None
       THEN LET fromBlock == head - LOOKBACK_POLL
            IN /\ pc' = [pc EXCEPT ![p] = "bfLogs"]
               /\ curBlock' = [curBlock EXCEPT ![p] = head]
               /\ fromBlk' = [fromBlk EXCEPT
                                ![p] = IF fromBlock > 0 THEN fromBlock ELSE 0]
       ELSE /\ pc' = [pc EXCEPT ![p] = "spinLogs"]
            /\ curBlock' = [curBlock EXCEPT ![p] = head]
            /\ fromBlk' = [fromBlk EXCEPT ![p] = lastProcessedBlockRef[1] + 1]
    /\ UNCHANGED << impl, head, activeSpin, lastWin, isGlobalSpinning,
                    showWinResult, lastProcessedBlockRef, lastWinIdRef,
                    spinTimeoutRef, winDisplayRef, queue, item, applied,
                    ended, stale >>
    /\ UNCHANGED pushFrame

\* A tick: getBlockNumber resolves with the head; the first poll asks for
\* the wins of the lookback window, a later one for the spins above the
\* cursor, or returns when there is no new block.
PollTick(p) ==
    /\ impl = "poll" /\ pc[p] = "idle" /\ ticks < MaxTicks /\ ~torn
    /\ ticks' = ticks + 1
    /\ IF lastProcessedBlockRef = None
       THEN LET fromBlock == head - LOOKBACK_POLL
            IN /\ pc' = [pc EXCEPT ![p] = "bfLogs"]
               /\ curBlock' = [curBlock EXCEPT ![p] = head]
               /\ fromBlk' = [fromBlk EXCEPT
                                ![p] = IF fromBlock > 0 THEN fromBlock ELSE 0]
               /\ UNCHANGED ended
       ELSE LET fromBlock == lastProcessedBlockRef[1] + 1
            IN IF fromBlock > head
               THEN /\ UNCHANGED << pc, curBlock, fromBlk >>
                    /\ ended' = ended \cup {NoopMark(head)}
               ELSE /\ pc' = [pc EXCEPT ![p] = "spinLogs"]
                    /\ curBlock' = [curBlock EXCEPT ![p] = head]
                    /\ fromBlk' = [fromBlk EXCEPT ![p] = fromBlock]
                    /\ UNCHANGED ended
    /\ UNCHANGED << impl, head, activeSpin, lastWin, isGlobalSpinning,
                    showWinResult, lastProcessedBlockRef, lastWinIdRef,
                    spinTimeoutRef, winDisplayRef, queue, item, applied,
                    stale >>
    /\ UNCHANGED pushFrame

\* A tick whose getBlockNumber rejects: caught and logged.
PollBlockFail(p) ==
    /\ impl = "poll" /\ pc[p] = "idle" /\ ticks < MaxTicks /\ ~torn
    /\ ticks' = ticks + 1
    /\ UNCHANGED << impl, head, activeSpin, lastWin, isGlobalSpinning,
                    showWinResult, lastProcessedBlockRef, lastWinIdRef,
                    spinTimeoutRef, winDisplayRef, pc, curBlock, fromBlk,
                    queue, item, applied, ended, stale >>
    /\ UNCHANGED pushFrame

\* A catch that stores the currentBlock of the failed poll as the cursor.
PollFetchFail_SetsCursor(p) ==
    /\ impl = "poll" /\ pc[p] \in {"bfLogs", "spinLogs", "winLogs"}
    /\ lastProcessedBlockRef' = Some(curBlock[p])
    /\ PollerIdle(p)
    /\ ended' = IF pc[p] = "bfLogs" THEN ended
                ELSE ended \cup {FailedMark(fromBlk[p], curBlock[p])}
    /\ UNCHANGED << impl, head, activeSpin, lastWin, isGlobalSpinning,
                    showWinResult, lastWinIdRef, spinTimeoutRef,
                    winDisplayRef, ticks, applied, stale >>
    /\ UNCHANGED pushFrame

\* A getLogs call rejects: the catch ends the poll, the cursor stays.
PollFetchFail(p) ==
    /\ impl = "poll" /\ pc[p] \in {"bfLogs", "spinLogs", "winLogs"}
    /\ PollerIdle(p)
    /\ ended' = IF pc[p] = "bfLogs" THEN ended
                ELSE ended \cup {FailedMark(fromBlk[p], curBlock[p])}
    /\ UNCHANGED << impl, head, activeSpin, lastWin, isGlobalSpinning,
                    showWinResult, lastProcessedBlockRef, lastWinIdRef,
                    spinTimeoutRef, winDisplayRef, ticks, applied, stale >>
    /\ UNCHANGED pushFrame

\* The first poll applying the oldest win of the window, not the latest.
BackfillLogs_Oldest(p) ==
    /\ impl = "poll" /\ pc[p] = "bfLogs"
    /\ LET winLogs == getLogs("Win", fromBlk[p], curBlock[p])
           oldestLog == winLogs[1]
       IN IF winLogs = <<>> \/ IsDupWin(GS, oldestLog)
          THEN /\ lastProcessedBlockRef' = Some(curBlock[p])
               /\ PollerIdle(p)
               /\ ended' = ended \cup {BackfillMark(curBlock[p])}
               /\ UNCHANGED << activeSpin, lastWin, isGlobalSpinning,
                               showWinResult, lastWinIdRef, spinTimeoutRef,
                               winDisplayRef, applied, stale >>
          ELSE /\ SetGS(processWinEvent(GS, oldestLog, FALSE))
               /\ PollerAt(p, "bfUser", <<>>, Some(oldestLog))
               /\ applied' = applied \cup {WinId(oldestLog)}
               /\ stale' = WinSupersedes
               /\ UNCHANGED << lastProcessedBlockRef, ended >>
    /\ UNCHANGED << impl, head, ticks >>
    /\ UNCHANGED pushFrame

\* First poll, getLogs(WIN_EVENT) resolves: apply the latest win with
\* isNew = false and suspend on its lookup; with no win, or a win that is a
\* duplicate, set the cursor and return.
BackfillLogs(p) ==
    /\ impl = "poll" /\ pc[p] = "bfLogs"
    /\ LET winLogs == getLogs("Win", fromBlk[p], curBlock[p])
           latestLog == winLogs[Len(winLogs)]
       IN IF winLogs = <<>> \/ IsDupWin(GS, latestLog)
          THEN /\ lastProcessedBlockRef' = Some(curBlock[p])
               /\ PollerIdle(p)
               /\ ended' = ended \cup {BackfillMark(curBlock[p])}
               /\ UNCHANGED << activeSpin, lastWin, isGlobalSpinning,
                               showWinResult, lastWinIdRef, spinTimeoutRef,
                               winDisplayRef, applied, stale >>
          ELSE /\ SetGS(processWinEvent(GS, latestLog, FALSE))
               /\ PollerAt(p, "bfUser", <<>>, Some(latestLog))
               /\ applied' = applied \cup {WinId(latestLog)}
               /\ stale' = WinSupersedes
               /\ UNCHANGED << lastProcessedBlockRef, ended >>
    /\ UNCHANGED << impl, head, ticks >>
    /\ UNCHANGED pushFrame

\* First poll, the win's lookup resolves: patch the user, set the cursor.
BackfillUser(p, ok) ==
    /\ impl = "poll" /\ pc[p] = "bfUser"
    /\ SetGS(PatchWinUser(GS, WinId(item[p][1]), ok))
    /\ lastProcessedBlockRef' = Some(curBlock[p])
    /\ PollerIdle(p)
    /\ ended' = ended \cup {BackfillMark(curBlock[p])}
    /\ UNCHANGED << impl, head, ticks, applied, stale >>
    /\ UNCHANGED pushFrame

\* getLogs(SPIN_EVENT) resolves: apply the first spin and suspend on its
\* lookup, or with no spin ask for the wins.
SpinLogs(p) ==
    /\ impl = "poll" /\ pc[p] = "spinLogs"
    /\ LET spinLogs == getLogs("Spin", fromBlk[p], curBlock[p])
       IN IF spinLogs = <<>>
          THEN /\ PollerAt(p, "winLogs", <<>>, None)
               /\ UNCHANGED << activeSpin, lastWin, isGlobalSpinning,
                               showWinResult, lastWinIdRef, spinTimeoutRef,
                               winDisplayRef, applied >>
          ELSE /\ SetGS(processSpinEvent(GS, Head(spinLogs)))
               /\ PollerAt(p, "spinUser", Tail(spinLogs), Some(Head(spinLogs)))
               /\ applied' = applied \cup {SpinId(Head(spinLogs))}
    /\ UNCHANGED << impl, head, lastProcessedBlockRef, ticks, ended, stale >>
    /\ UNCHANGED pushFrame

\* A spin's lookup resolves: patch, arm the liveness timeout, then go on
\* with the next spin of the batch, or ask for the wins.
SpinUser(p, ok) ==
    /\ impl = "poll" /\ pc[p] = "spinUser"
    /\ LET g == processSpinEventResume(GS, item[p][1], ok)
       IN IF queue[p] = <<>>
          THEN /\ SetGS(g)
               /\ PollerAt(p, "winLogs", <<>>, None)
               /\ UNCHANGED applied
          ELSE /\ SetGS(processSpinEvent(g, Head(queue[p])))
               /\ PollerAt(p, "spinUser", Tail(queue[p]), Some(Head(queue[p])))
               /\ applied' = applied \cup {SpinId(Head(queue[p]))}
    /\ stale' = ArmedByPoll(p)
    /\ UNCHANGED << impl, head, lastProcessedBlockRef, ticks, ended >>
    /\ UNCHANGED pushFrame

\* getLogs(WIN_EVENT) of a normal poll resolves.
WinLogs(p) ==
    /\ impl = "poll" /\ pc[p] = "winLogs"
    /\ WinLoop(p, GS, getLogs("Win", fromBlk[p], curBlock[p]))
    /\ UNCHANGED << impl, head, ticks >>
    /\ UNCHANGED pushFrame

\* A win's lookup resolves: patch, then the next win or the end of the poll.
WinUser(p, ok) ==
    /\ impl = "poll" /\ pc[p] = "winUser"
    /\ WinLoop(p, PatchWinUser(GS, WinId(item[p][1]), ok), queue[p])
    /\ UNCHANGED << impl, head, ticks >>
    /\ UNCHANGED pushFrame

\* ------------------------------------------------------------- the timers
pollFrame ==
    << lastProcessedBlockRef, pc, curBlock, fromBlk, queue, item, ticks >>

\* What the hook's timers and the chain leave alone.
restFrame == << pollFrame, pushFrame >>

\* The liveness timeout fires:
\* setActiveSpin(prev => prev?.id === id ? null : prev); setIsGlobalSpinning(false)
SpinTimeoutFire ==
    /\ spinTimeoutRef # None
    /\ activeSpin' = IF activeSpin # None /\ activeSpin[1].id = spinTimeoutRef[1]
                     THEN None ELSE activeSpin
    /\ isGlobalSpinning' = FALSE
    /\ spinTimeoutRef' = None
    /\ stale' = [stale EXCEPT !.timer = FALSE]
    /\ UNCHANGED << impl, head, lastWin, showWinResult, lastWinIdRef,
                    winDisplayRef, applied, ended >>
    /\ UNCHANGED restFrame

\* The display timeout with a callback that drops the win as well.
WinDisplayFire_ClearsWin ==
    /\ winDisplayRef
    /\ showWinResult' = FALSE
    /\ winDisplayRef' = FALSE
    /\ lastWin' = None
    /\ UNCHANGED << impl, head, activeSpin, isGlobalSpinning,
                    lastWinIdRef, spinTimeoutRef, applied, ended, stale >>
    /\ UNCHANGED restFrame

\* The display timeout fires: setShowWinResult(false)
WinDisplayFire ==
    /\ winDisplayRef
    /\ showWinResult' = FALSE
    /\ winDisplayRef' = FALSE
    /\ UNCHANGED << impl, head, activeSpin, lastWin, isGlobalSpinning,
                    lastWinIdRef, spinTimeoutRef, applied, ended, stale >>
    /\ UNCHANGED restFrame

\* The chain produces a block.
MineBlock ==
    /\ head < MaxBlock
    /\ head' = head + 1
    /\ UNCHANGED << impl, activeSpin, lastWin, isGlobalSpinning,
                    showWinResult, lastWinIdRef, spinTimeoutRef,
                    winDisplayRef, applied, ended, stale >>
    /\ UNCHANGED restFrame

\* ----------------------------------------- use-global-spin.ts: push form
\* fetchRecentWin starts on mount: getBlockNumber resolves with the head.
FetchRecentStart ==
    /\ impl = "push" /\ frwPc = "init" /\ ~torn
    /\ frwPc' = "logs"
    /\ frwBlock' = head
    /\ UNCHANGED << impl, head, activeSpin, lastWin, isGlobalSpinning,
                    showWinResult, lastWinIdRef, spinTimeoutRef,
                    winDisplayRef, applied, pushPending, pushes, ended,
                    stale >>
    /\ UNCHANGED << pollFrame, localVars >>

\* getBlockNumber or getLogs rejects: caught and logged.
FetchRecentFail ==
    /\ impl = "push" /\ frwPc \in {"init", "logs"}
    /\ frwPc' = "done"
    /\ frwBlock' = 0
    /\ UNCHANGED << impl, head, activeSpin, lastWin, isGlobalSpinning,
                    showWinResult, lastWinIdRef, spinTimeoutRef,
                    winDisplayRef, applied, pushPending, pushes, ended,
                    stale >>
    /\ UNCHANGED << pollFrame, localVars >>

\* getLogs resolves: setLastWin(newWin) for the latest win of the window.
FetchRecentLogs ==
    /\ impl = "push" /\ frwPc = "logs"
    /\ LET fromBlock == frwBlock - LOOKBACK_PUSH
           logs == getLogs("Win", IF fromBlock > 0 THEN fromBlock ELSE 0,
                           frwBlock)
           latestLog == logs[Len(logs)]
       IN IF logs = <<>>
          THEN /\ frwPc' = "done"
               /\ frwBlock' = 0
               /\ UNCHANGED << lastWin, applied >>
          ELSE /\ lastWin' = Some(newWin(latestLog))
               /\ frwPc' = "user"
               /\ UNCHANGED frwBlock
               /\ applied' = applied \cup {WinId(latestLog)}
    /\ UNCHANGED << impl, head, activeSpin, isGlobalSpinning, showWinResult,
                    lastWinIdRef, spinTimeoutRef, winDisplayRef, pushPending,
                    pushes, ended, stale >>
    /\ UNCHANGED << pollFrame, localVars >>

\* fetchRecentWin's lookup resolves.
FetchRecentUser(ok) ==
    /\ impl = "push" /\ frwPc = "user"
    /\ LET fromBlock == frwBlock - LOOKBACK_PUSH
           logs == getLogs("Win", IF fromBlock > 0 THEN fromBlock ELSE 0,
                           frwBlock)
       IN SetGS(PatchWinUser(GS, WinId(logs[Len(logs)]), ok))
    /\ frwPc' = "done"
    /\ frwBlock' = 0
    /\ UNCHANGED << impl, head, applied, pushPending, pushes, ended, stale >>
    /\ UNCHANGED << pollFrame, localVars >>

\* Rig__Spin onLogs up to its await, for one delivered log: no dedup check.
PushSpin(b) ==
    /\ impl = "push" /\ pushes < MaxPushes /\ ~torn
    /\ b \in 1..head /\ LogAt(b).kind = "Spin"
    /\ SetGS(processSpinEvent(GS, LogAt(b)))
    /\ pushPending' = pushPending \cup {b}
    /\ pushes' = pushes + 1
    /\ applied' = applied \cup {SpinId(LogAt(b))}
    /\ stale' = [stale EXCEPT !.push = @ \ {b}]
    /\ UNCHANGED << impl, head, frwPc, frwBlock, ended >>
    /\ UNCHANGED << pollFrame, localVars >>

\* Rig__Win onLogs up to its await, for one delivered log: no dedup check,
\* showWinResult is set, the display timeout is armed only after the await.
PushWin(b) ==
    /\ impl = "push" /\ pushes < MaxPushes /\ ~torn
    /\ b \in 1..head /\ LogAt(b).kind = "Win"
    /\ SetGS([GS EXCEPT !.spinTimeoutRef = None,
                        !.activeSpin = None,
                        !.isGlobalSpinning = FALSE,
                        !.lastWin = Some(newWin(LogAt(b))),
                        !.showWinResult = TRUE])
    /\ pushPending' = pushPending \cup {b}
    /\ pushes' = pushes + 1
    /\ applied' = applied \cup {WinId(LogAt(b))}
    /\ stale' = WinSupersedes
    /\ UNCHANGED << impl, head, frwPc, frwBlock, ended >>
    /\ UNCHANGED << pollFrame, localVars >>

\* A push handler's lookup resolves: a spin handler patches and arms the
\* liveness timeout, a win handler patches and arms the display timeout.
PushResume(b, ok) ==
    /\ impl = "push" /\ b \in pushPending
    /\ IF LogAt(b).kind = "Spin"
       THEN /\ SetGS(processSpinEventResume(GS, LogAt(b), ok))
            /\ stale' = ArmedByPush(b)
       ELSE /\ SetGS([PatchWinUser(GS, WinId(LogAt(b)), ok)
                       EXCEPT !.winDisplayRef = TRUE])
            /\ UNCHANGED stale
    /\ pushPending' = pushPending \ {b}
    /\ UNCHANGED << impl, head, applied, pushes, frwPc, frwBlock, ended >>
    /\ UNCHANGED << pollFrame, localVars >>

\* ------------------------------------------- part_001: DonutardioPage
\* Concurrent calls of handleSpin (a second click while the first call is
\* suspended on connectAsync or writeContract).
Callers == {"h1", "h2"}

\* Addresses as the wallet and the logs spell them: the same account in
\* checksum and in lower case, and another account.
Addr == {"0xA1", "0xa1", "0xB2"}

\* String.prototype.toLowerCase on an address
toLowerCase(a) ==
    CASE a = "0xA1" -> "0xa1"
      [] a = "0xB2" -> "0xb2"
      [] OTHER -> a

\* The account the wallet connects.
WalletAccount == "0xA1"

\* LocalActionState and what the page keeps with it, as a value.
LS ==
    [localSpinState |-> localSpinState, pendingEpochId |-> pendingEpochId,
     preSpinBalanceRef |-> preSpinBalanceRef, vrfTimeoutRef |-> vrfTimeoutRef,
     leakedVrf |-> leakedVrf, balancePollRef |-> balancePollRef,
     leakedPolls |-> leakedPolls, txHash |-> txHash, receipt |-> receipt,
     refetchRequested |-> refetchRequested, resolved |-> resolved]

SetLS(l) ==
    /\ localSpinState' = l.localSpinState
    /\ pendingEpochId' = l.pendingEpochId
    /\ preSpinBalanceRef' = l.preSpinBalanceRef
    /\ vrfTimeoutRef' = l.vrfTimeoutRef
    /\ leakedVrf' = l.leakedVrf
    /\ balancePollRef' = l.balancePollRef
    /\ leakedPolls' = l.leakedPolls
    /\ txHash' = l.txHash
    /\ receipt' = l.receipt
    /\ refetchRequested' = l.refetchRequested
    /\ resolved' = l.resolved

\* resetWrite(): the pending write and with it the awaited receipt are gone.
resetWrite(l) == [l EXCEPT !.txHash = FALSE, !.receipt = "none"]

\* handleWinDetected: clear both refs, back to idle, drop the snapshot,
\* refetch, reset the write. It checks no state itself.
handleWinDetected(l, by) ==
    resetWrite([l EXCEPT !.vrfTimeoutRef = "null",
                         !.balancePollRef = "null",
                         !.localSpinState = "idle",
                         !.preSpinBalanceRef = None,
                         !.refetchRequested = TRUE,
                         !.resolved = Some([by |-> by,
                                            snap |-> l.preSpinBalanceRef])])

\* The balance effect's condition without its check of the state.
balanceDetects_AnyState(l, rig) ==
    /\ rig # None
    /\ l.preSpinBalanceRef # None
    /\ rig[1].unitBalance > l.preSpinBalanceRef[1]

\* The balance effect's condition with >= in place of >.
balanceDetects_NotBelow(l, rig) ==
    /\ l.localSpinState = "waiting_vrf"
    /\ rig # None
    /\ l.preSpinBalanceRef # None
    /\ rig[1].unitBalance >= l.preSpinBalanceRef[1]

\* The balance effect's condition: waiting_vrf, rigState and snapshot known,
\* and rigState.unitBalance > preSpinBalanceRef.current.
balanceDetects(l, rig) ==
    /\ l.localSpinState = "waiting_vrf"
    /\ rig # None
    /\ l.preSpinBalanceRef # None
    /\ rig[1].unitBalance > l.preSpinBalanceRef[1]

\* The balance change detection effect, run with the state of a render.
balanceEffect(l, rig) ==
    IF balanceDetects(l, rig) THEN handleWinDetected(l, "balance") ELSE l

\* The watcher's condition without its comparison of the addresses.
pushMatches_AnyActor(l, spinner, addr) ==
    /\ addr # None
    /\ l.localSpinState = "waiting_vrf"

\* The Rig__Win watcher's condition for one log:
\* spinner?.toLowerCase() === address?.toLowerCase() && localSpinState === 'waiting_vrf'
pushMatches(l, spinner, addr) ==
    /\ addr # None
    /\ toLowerCase(spinner) = toLowerCase(addr[1])
    /\ l.localSpinState = "waiting_vrf"

\* The catch of handleSpin: setLocalSpinState('idle'); resetWrite()
spinFailed(l) == resetWrite([l EXCEPT !.localSpinState = "idle"])

\* handleSpin between its two awaits: pending, the snapshot and the epoch of
\* the rigState the call closed over.
spinSubmitted(l, rig) ==
    [l EXCEPT !.localSpinState = "pending",
              !.preSpinBalanceRef = Some(rig.unitBalance),
              !.pendingEpochId = Some(rig.epochId),
              !.resolved = None]

\* The receipt effect for a successful receipt: waiting_vrf, a new timeout
\* and a new interval stored over whatever the refs held.
receiptSuccess(l) ==
    [l EXCEPT !.localSpinState = "waiting_vrf",
              !.leakedVrf = IF l.vrfTimeoutRef = "armed" THEN @ + 1 ELSE @,
              !.vrfTimeoutRef = "armed",
              !.leakedPolls = IF l.balancePollRef = "armed" THEN @ + 1 ELSE @,
              !.balancePollRef = "armed"]

\* The receipt effect for a reverted receipt.
receiptReverted(l) ==
    resetWrite([l EXCEPT !.localSpinState = "idle",
                         !.preSpinBalanceRef = None])

\* The VRF timeout's callback: it checks no state either.
vrfTimeoutCallback(l) ==
    resetWrite([l EXCEPT !.balancePollRef = "null",
                         !.localSpinState = "idle",
                         !.preSpinBalanceRef = None,
                         !.refetchRequested = TRUE,
                         !.resolved = Some([by |-> "timeout",
                                            snap |-> l.preSpinBalanceRef])])

callFrame == << hpc, hsnap, clicks >>

\* The wallet connects by itself (the auto-connect effect).
AutoConnect ==
    /\ address = None /\ ~torn
    /\ \A h \in Callers : hpc[h] # "connecting"
    /\ address' = Some(WalletAccount)
    /\ lev' = <<"connect", "">>
    /\ UNCHANGED << localSpinState, pendingEpochId, preSpinBalanceRef,
                    vrfTimeoutRef, leakedVrf, balancePollRef, leakedPolls,
                    rigState, txHash, receipt, refetchRequested, resolved >>
    /\ UNCHANGED callFrame
    /\ UNCHANGED << ingestVars, torn, poolVars >>

\* A click: handleSpin returns at once without rigState or outside idle;
\* with an address it submits, without one it awaits connectAsync, and
\* without a connector it throws into its catch.
HandleSpin(h, connector) ==
    /\ hpc[h] = "idle" /\ clicks < MaxClicks /\ ~torn
    /\ clicks' = clicks + 1
    /\ lev' = <<"click", "">>
    /\ IF rigState = None \/ localSpinState # "idle"
       THEN UNCHANGED << localSpinState, pendingEpochId, preSpinBalanceRef,
                         vrfTimeoutRef, leakedVrf, balancePollRef,
                         leakedPolls, txHash, receipt, refetchRequested,
                         resolved, hpc, hsnap >>
       ELSE IF address # None
       THEN /\ SetLS(spinSubmitted(LS, rigState[1]))
            /\ hpc' = [hpc EXCEPT ![h] = "writing"]
            /\ UNCHANGED hsnap
       ELSE IF ~connector
       THEN /\ SetLS(spinFailed(LS))
            /\ UNCHANGED << hpc, hsnap >>
       ELSE /\ hpc' = [hpc EXCEPT ![h] = "connecting"]
            /\ hsnap' = [hsnap EXCEPT ![h] = rigState]
            /\ UNCHANGED << localSpinState, pendingEpochId,
                            preSpinBalanceRef, vrfTimeoutRef, leakedVrf,
                            balancePollRef, leakedPolls, txHash, receipt,
                            refetchRequested, resolved >>
    /\ UNCHANGED << address, rigState >>
    /\ UNCHANGED << ingestVars, torn, poolVars >>

\* connectAsync settles: resolved, handleSpin submits with the rigState it
\* closed over; rejected, it runs its catch.
ConnectReturn(h, ok) ==
    /\ hpc[h] = "connecting"
    /\ lev' = <<"connected", IF ok THEN "ok" ELSE "throw">>
    /\ IF ok
       THEN /\ SetLS(spinSubmitted(LS, hsnap[h][1]))
            /\ address' = Some(WalletAccount)
            /\ hpc' = [hpc EXCEPT ![h] = "writing"]
       ELSE /\ SetLS(spinFailed(LS))
            /\ UNCHANGED address
            /\ hpc' = [hpc EXCEPT ![h] = "idle"]
    /\ hsnap' = [hsnap EXCEPT ![h] = None]
    /\ UNCHANGED << rigState, clicks >>
    /\ UNCHANGED << ingestVars, torn, poolVars >>

\* writeContract settles: returned, the state is confirming and the hash is
\* known; thrown, handleSpin runs its catch.
WriteReturn(h, ok) ==
    /\ hpc[h] = "writing"
    /\ lev' = <<"written", IF ok THEN "ok" ELSE "throw">>
    /\ IF ok
       THEN SetLS([LS EXCEPT !.localSpinState = "confirming",
                             !.txHash = TRUE, !.receipt = "none"])
       ELSE SetLS(spinFailed(LS))
    /\ hpc' = [hpc EXCEPT ![h] = "idle"]
    /\ UNCHANGED << address, rigState, hsnap, clicks >>
    /\ UNCHANGED << ingestVars, torn, poolVars >>

\* The receipt of the known hash arrives and the receipt effect runs; after
\* a success the balance effect runs with the new state.
ReceiptArrives(status) ==
    /\ txHash /\ receipt = "none" /\ ~torn
    /\ lev' = <<"receipt", status>>
    /\ IF status = "success"
       THEN SetLS(balanceEffect([receiptSuccess(LS) EXCEPT !.receipt = status],
                                rigState))
       ELSE SetLS(receiptReverted(LS))
    /\ UNCHANGED << address, rigState >>
    /\ UNCHANGED callFrame
    /\ UNCHANGED << ingestVars, torn, poolVars >>

\* The Rig__Win watcher of the page gets a log of spinner a and epoch e;
\* of the log's arguments onLogs reads the spinner only.
PageWinLog(a, e) ==
    /\ ~torn
    /\ e \in 1..MaxEpoch
    /\ lev' = <<"push", a>>
    /\ IF pushMatches(LS, a, address)
       THEN SetLS(handleWinDetected(LS, "push"))
       ELSE UNCHANGED << localSpinState, pendingEpochId, preSpinBalanceRef,
                         vrfTimeoutRef, leakedVrf, balancePollRef,
                         leakedPolls, txHash, receipt, refetchRequested,
                         resolved >>
    /\ UNCHANGED << address, rigState >>
    /\ UNCHANGED callFrame
    /\ UNCHANGED << ingestVars, torn, poolVars >>

\* getRig is read again (every 3 s, or on refetch): rigState changes and the
\* balance effect runs.
Refresh(b, e) ==
    /\ ~torn
    /\ IF rigState = None THEN TRUE ELSE e >= rigState[1].epochId
    /\ rigState' = Some([unitBalance |-> b, epochId |-> e])
    /\ lev' = <<"refresh", "">>
    /\ SetLS(balanceEffect([LS EXCEPT !.refetchRequested = FALSE], rigState'))
    /\ UNCHANGED address
    /\ UNCHANGED callFrame
    /\ UNCHANGED << ingestVars, torn, poolVars >>

\* A VRF timeout fires: the one the ref holds, or one stored over earlier.
VrfTimeoutFires(which) ==
    /\ lev' = <<"timeout", which>>
    /\ IF which = "ref"
       THEN /\ vrfTimeoutRef = "armed"
            /\ SetLS([vrfTimeoutCallback(LS) EXCEPT !.vrfTimeoutRef = "fired"])
       ELSE /\ leakedVrf > 0
            /\ SetLS([vrfTimeoutCallback(LS) EXCEPT !.leakedVrf = @ - 1])
    /\ UNCHANGED << address, rigState >>
    /\ UNCHANGED callFrame
    /\ UNCHANGED << ingestVars, torn, poolVars >>

\* A balance interval ticks: refetchRigState()
BalancePollTick ==
    /\ balancePollRef = "armed" \/ leakedPolls > 0
    /\ refetchRequested' = TRUE
    /\ lev' = <<"balancePoll", "">>
    /\ UNCHANGED << localSpinState, pendingEpochId, preSpinBalanceRef,
                    vrfTimeoutRef, leakedVrf, balancePollRef, leakedPolls,
                    address, rigState, txHash, receipt, resolved >>
    /\ UNCHANGED callFrame
    /\ UNCHANGED << ingestVars, torn, poolVars >>

\* ------------------------------------ part_001: prize pool interpolation
\* const totalPool = rigState.prizePool + rigState.pendingEmissions
totalPool(rig) == rig.prizePool + rig.pendingEmissions

\* A bigint in a condition: 0n is falsy, like null.
Falsy(v) == v = None \/ v[1] = 0

\* The updater of the interval: (prev) => !prev ? totalPool : prev + ups
interpolate(prev, rig) ==
    IF Falsy(prev) THEN Some(totalPool(rig)) ELSE Some(prev[1] + rig.ups)

\* getRig is read again: rigState changes, the effect clears the running
\* interval, sets the displayed pool to totalPool and starts a new interval.
PoolRefresh(pool, pending, ups) ==
    /\ ~torn
    /\ poolRig' = Some([prizePool |-> pool, pendingEmissions |-> pending,
                        ups |-> ups])
    /\ interpolatedPrizePool' = Some(totalPool(poolRig'[1]))
    /\ secondsElapsed' = 0
    /\ UNCHANGED << ingestVars, lifeVars >>

\* The interval ticks with the rigState its closure holds.
PoolTick ==
    /\ ~torn
    /\ poolRig # None
    /\ secondsElapsed < MaxSeconds
    /\ secondsElapsed' = secondsElapsed + 1
    /\ interpolatedPrizePool' =
          IF poolRig[1].ups > 0
          THEN interpolate(interpolatedPrizePool, poolRig[1])
          ELSE interpolatedPrizePool
    /\ UNCHANGED poolRig
    /\ UNCHANGED << ingestVars, lifeVars >>

\* ------------------------------------------------------ session teardown
\* The components unmount: the cleanups of useGlobalSpin and of the page
\* clear the timers and intervals their refs hold at that moment. The poll
\* interval, the watchers, the reads and the button are gone; calls that are
\* suspended on an await go on when it settles.
Unmount ==
    /\ ~torn
    /\ torn' = TRUE
    /\ spinTimeoutRef' = None
    /\ winDisplayRef' = FALSE
    /\ vrfTimeoutRef' = IF vrfTimeoutRef = "armed" THEN "fired" ELSE vrfTimeoutRef
    /\ balancePollRef' = "null"
    /\ stale' = [stale EXCEPT !.timer = FALSE]
    /\ UNCHANGED << impl, head, activeSpin, lastWin, isGlobalSpinning,
                    showWinResult, lastProcessedBlockRef, lastWinIdRef, pc,
                    curBlock, fromBlk, queue, item, ticks, pushPending,
                    pushes, frwPc, frwBlock, applied, ended >>
    /\ UNCHANGED << localSpinState, pendingEpochId, preSpinBalanceRef,
                    leakedVrf, leakedPolls, address, rigState, txHash,
                    receipt, refetchRequested, hpc, hsnap, clicks, lev,
                    resolved >>
    /\ UNCHANGED poolVars

\* ---------------------------------------------------------- specification
IngestInit ==
    /\ activeSpin = None
    /\ lastWin = None
    /\ isGlobalSpinning = FALSE
    /\ showWinResult = FALSE
    /\ lastProcessedBlockRef = None
    /\ lastWinIdRef = None
    /\ spinTimeoutRef = None
    /\ winDisplayRef = FALSE
    /\ pc = [p \in Pollers |-> "idle"]
    /\ curBlock = [p \in Pollers |-> 0]
    /\ fromBlk = [p \in Pollers |-> 0]
    /\ queue = [p \in Pollers |-> <<>>]
    /\ item = [p \in Pollers |-> None]
    /\ ticks = 0
    /\ pushPending = {}
    /\ pushes = 0
    /\ frwPc = "init"
    /\ frwBlock = 0
    /\ applied = {}
    /\ ended = {}
    /\ stale = [poll |-> {}, push |-> {}, timer |-> FALSE]

LocalInit ==
    /\ localSpinState = "idle"
    /\ pendingEpochId = None
    /\ preSpinBalanceRef = None
    /\ vrfTimeoutRef = "null"
    /\ leakedVrf = 0
    /\ balancePollRef = "null"
    /\ leakedPolls = 0
    /\ rigState = None
    /\ txHash = FALSE
    /\ receipt = "none"
    /\ refetchRequested = FALSE
    /\ hpc = [h \in Callers |-> "idle"]
    /\ hsnap = [h \in Callers |-> None]
    /\ clicks = 0
    /\ lev = <<"mount", "">>
    /\ resolved = None
    /\ torn = FALSE
    /\ poolRig = None
    /\ interpolatedPrizePool = None
    /\ secondsElapsed = 0

\* The ingestion hook, mounted in either form at any height of the chain.
Init ==
    /\ impl \in {"poll", "push"}
    /\ head \in 0..MaxBlock
    /\ IngestInit
    /\ address = None
    /\ LocalInit

Next ==
    \/ \E p \in Pollers : PollTick(p)
    \/ \E p \in Pollers : PollBlockFail(p)
    \/ \E p \in Pollers : PollFetchFail(p)
    \/ \E p \in Pollers : BackfillLogs(p)
    \/ \E p \in Pollers, ok \in BOOLEAN : BackfillUser(p, ok)
    \/ \E p \in Pollers : SpinLogs(p)
    \/ \E p \in Pollers, ok \in BOOLEAN : SpinUser(p, ok)
    \/ \E p \in Pollers : WinLogs(p)
    \/ \E p \in Pollers, ok \in BOOLEAN : WinUser(p, ok)
    \/ SpinTimeoutFire
    \/ WinDisplayFire
    \/ MineBlock
    \/ FetchRecentStart
    \/ FetchRecentFail
    \/ FetchRecentLogs
    \/ \E ok \in BOOLEAN : FetchRecentUser(ok)
    \/ \E b \in 1..MaxBlock : PushSpin(b)
    \/ \E b \in 1..MaxBlock : PushWin(b)
    \/ \E b \in 1..MaxBlock, ok \in BOOLEAN : PushResume(b, ok)

Spec == Init /\ [][Next]_vars

\* What the runtime guarantees the hook: an armed timeout fires and a pending
\* getLogs call settles (it resolves unless it rejects).
TimersAndFetches ==
    /\ WF_vars(SpinTimeoutFire)
    /\ WF_vars(WinDisplayFire)
    /\ WF_vars(\E p \in Pollers : BackfillLogs(p))
    /\ WF_vars(\E p \in Pollers : SpinLogs(p))
    /\ WF_vars(\E p \in Pollers : WinLogs(p))
    /\ WF_vars(FetchRecentLogs)

\* The identity lookups settle as well.
LookupsSettle ==
    /\ WF_vars(\E p \in Pollers, ok \in BOOLEAN : BackfillUser(p, ok))
    /\ WF_vars(\E p \in Pollers, ok \in BOOLEAN : SpinUser(p, ok))
    /\ WF_vars(\E p \in Pollers, ok \in BOOLEAN : WinUser(p, ok))
    /\ WF_vars(FetchRecentUser(TRUE) \/ FetchRecentUser(FALSE))
    /\ WF_vars(\E b \in 1..MaxBlock, ok \in BOOLEAN : PushResume(b, ok))

\* The hook when an identity lookup may stay pending for ever
\* (fetchUserByAddress awaits a fetch that has no timeout).
StalledLookupSpec == Spec /\ TimersAndFetches

\* The hook when every identity lookup settles.
IngestFairSpec == Spec /\ TimersAndFetches /\ LookupsSettle

\* The hook in a session that may be torn down at any moment.
TeardownNext ==
    \/ Next
    \/ Unmount

TeardownSpec == Init /\ [][TeardownNext]_vars

\* The page's spin lifecycle, with the wallet connected or not at mount.
LifecycleInit ==
    /\ impl = "push"
    /\ head = 0
    /\ IngestInit
    /\ address \in {None, Some(WalletAccount)}
    /\ LocalInit

LifecycleNext ==
    \/ AutoConnect
    \/ \E h \in Callers, connector \in BOOLEAN : HandleSpin(h, connector)
    \/ \E h \in Callers, ok \in BOOLEAN : ConnectReturn(h, ok)
    \/ \E h \in Callers, ok \in BOOLEAN : WriteReturn(h, ok)
    \/ \E status \in {"success", "reverted"} : ReceiptArrives(status)
    \/ \E a \in Addr, e \in 1..MaxEpoch : PageWinLog(a, e)
    \/ \E b \in 0..MaxBalance, e \in 1..MaxEpoch : Refresh(b, e)
    \/ \E which \in {"ref", "leaked"} : VrfTimeoutFires(which)
    \/ BalancePollTick

LifecycleSpec == LifecycleInit /\ [][LifecycleNext]_vars

\* The lifecycle with what the runtime guarantees: an armed timeout fires, a
\* pending connectAsync or writeContract settles. Nothing guarantees that a
\* receipt, a Win log or a higher balance ever arrives.
LifecycleFairSpec ==
    /\ LifecycleSpec
    /\ WF_vars(\E which \in {"ref", "leaked"} : VrfTimeoutFires(which))
    /\ WF_vars(\E h \in Callers, ok \in BOOLEAN : ConnectReturn(h, ok))
    /\ WF_vars(\E h \in Callers, ok \in BOOLEAN : WriteReturn(h, ok))

\* ------------------------------------------------------------------ claims
\* C1: under polling (successive, overlapping or retried polls) a Win with a
\* given id changes GlobalActivityState at most once: once it has been
\* applied, no later delivery makes it lastWin again (after W1 and then W2,
\* a re-delivery of W1 leaves lastWin = W2).
C1_WinAppliedOnce ==
    [][~(/\ impl = "poll"
         /\ lastWin' # None
         /\ lastWin'[1].id \in applied
         /\ (lastWin = None \/ lastWin[1].id # lastWin'[1].id))]_vars

\* C2: under polling a Spin whose id has been applied is ignored when
\* delivered again: after Spin S and then its Win have been applied, no step
\* makes S the active spin again.
C2_SpinAppliedOnce ==
    [][~(/\ impl = "poll"
         /\ activeSpin' # None
         /\ (activeSpin = None \/ activeSpin[1].id # activeSpin'[1].id)
         /\ activeSpin'[1].id \in applied
         /\ \E w \in applied : /\ w[1] = "win"
                               /\ w[2] = activeSpin'[1].spinner
                               /\ w[3] = activeSpin'[1].epochId)]_vars

\* C3: Cursor.lastProcessedBlock never decreases and never returns to none
\* once set.
C3_CursorMonotonic ==
    [][lastProcessedBlockRef # None =>
         /\ lastProcessedBlockRef' # None
         /\ lastProcessedBlockRef'[1] >= lastProcessedBlockRef[1]]_vars

\* C4: within one poll batch, occurrences are applied in non-decreasing
\* block order across both kinds: when a poll applies a Win of block N, no
\* Spin of its batch from a block above N has been applied before it.
C4_BlockOrder ==
    \A p \in Pollers :
        pc[p] = "winUser" =>
            LET spinLogs == getLogs("Spin", fromBlk[p], curBlock[p])
            IN \A i \in 1..Len(spinLogs) :
                   spinLogs[i].blockNumber <= item[p][1].blockNumber

\* A normal poll ends: its last win was handled and the cursor is set.
NormalFinish(p) ==
    /\ WinLogs(p) \/ \E ok \in BOOLEAN : WinUser(p, ok)
    /\ pc'[p] = "idle"

\* C5: after a poll has processed a batch that ends with a Spin for epoch E
\* at block N and the Win for E at block N+1, activeSpin is none, isLive is
\* false and lastWin.epochId = E.
C5_SpinThenWin ==
    [][\A p \in Pollers :
         (/\ NormalFinish(p)
          /\ fromBlk[p] < curBlock[p]
          /\ LogAt(curBlock[p]).kind = "Win")
         => /\ activeSpin' = None
            /\ ~isGlobalSpinning'
            /\ lastWin' # None
            /\ lastWin'[1].epochId = LogAt(curBlock[p]).epochId]_vars

\* The first poll of the session has ended and no other has started.
C6_FirstPollDone ==
    impl = "poll" /\ ticks = 1 /\ lastProcessedBlockRef # None

\* C6: the first-ever poll that finds a historical Win sets lastWin to the
\* latest Win of the window, leaves showWinHighlight false, arms no display
\* timeout and sets the cursor to the currentBlock it read; no backfill
\* step (of any first poll, or of fetchRecentWin) sets showWinHighlight or
\* arms the display timeout.
C6_BackfillSilent ==
    /\ [](C6_FirstPollDone =>
            LET c == lastProcessedBlockRef[1]
                f == IF c - LOOKBACK_POLL > 0 THEN c - LOOKBACK_POLL ELSE 0
                winLogs == getLogs("Win", f, c)
            IN /\ ~showWinResult
               /\ ~winDisplayRef
               /\ winLogs # <<>> =>
                    /\ lastWin # None
                    /\ lastWin[1].id = WinId(winLogs[Len(winLogs)]))
    /\ [][\A p \in Pollers :
            (BackfillLogs(p) \/ \E ok \in BOOLEAN : BackfillUser(p, ok))
            => /\ showWinResult' = showWinResult
               /\ winDisplayRef' = winDisplayRef
               /\ pc'[p] = "idle" =>
                    lastProcessedBlockRef' = Some(curBlock[p])]_vars
    /\ [][(FetchRecentLogs \/ \E ok \in BOOLEAN : FetchRecentUser(ok))
            => /\ showWinResult' = showWinResult
               /\ winDisplayRef' = winDisplayRef]_vars

\* C6 witness: the first poll found a historical win and ended silently.
C6_Witness ==
    /\ C6_FirstPollDone
    /\ lastWin # None
    /\ lastProcessedBlockRef[1] >= lastWin[1].id[4]
    /\ ~showWinResult

detectorState ==
    << localSpinState, pendingEpochId, preSpinBalanceRef, vrfTimeoutRef,
       leakedVrf, balancePollRef, leakedPolls >>

\* C7: from awaiting_resolution the first of push-match and balance-delta
\* to fire moves the state to idle with both refs cleared; a firing in any
\* other state (the second one) changes neither the state, the snapshot nor
\* a timer.
C7_SingleResolution ==
    [][lev'[1] \in {"push", "refresh"} =>
         IF localSpinState = "waiting_vrf"
         THEN /\ localSpinState' \in {"waiting_vrf", "idle"}
              /\ localSpinState' = "idle" =>
                   /\ preSpinBalanceRef' = None
                   /\ vrfTimeoutRef' = "null"
                   /\ balancePollRef' = "null"
              /\ (\/ /\ lev'[1] = "push"
                     /\ address # None
                     /\ toLowerCase(lev'[2]) = toLowerCase(address[1])
                  \/ /\ lev'[1] = "refresh"
                     /\ preSpinBalanceRef # None
                     /\ rigState'[1].unitBalance > preSpinBalanceRef[1])
                 => localSpinState' = "idle"
         ELSE UNCHANGED detectorState]_vars

\* C7 witness: the push-match resolved the action and a later refresh showed
\* a balance above the snapshot of that action.
C7_Witness ==
    /\ localSpinState = "idle"
    /\ lev[1] = "refresh"
    /\ resolved # None
    /\ resolved[1].by = "push"
    /\ resolved[1].snap # None
    /\ rigState[1].unitBalance > resolved[1].snap[1]

\* C8: while awaiting_resolution, a pushed Win of another actor resolves
\* nothing: state, snapshot, timers and the pending write are unchanged.
C8_OtherActorIgnored ==
    [][(/\ lev'[1] = "push"
        /\ localSpinState = "waiting_vrf"
        /\ IF address = None THEN TRUE
           ELSE toLowerCase(lev'[2]) # toLowerCase(address[1]))
       => UNCHANGED << detectorState, txHash, receipt >>]_vars

\* C8 witness: awaiting_resolution right after another actor's Win.
C8_Witness ==
    /\ localSpinState = "waiting_vrf"
    /\ lev[1] = "push"
    /\ address # None
    /\ toLowerCase(lev[2]) # toLowerCase(address[1])

\* C9: the only transitions out of awaiting_resolution lead to idle and are
\* push-match, balance-delta and the expiry of the timeout armed on entry.
C9_OnlyDetectorsResolve ==
    [][(localSpinState = "waiting_vrf" /\ localSpinState' # "waiting_vrf")
       => /\ localSpinState' = "idle"
          /\ lev'[1] \in {"push", "refresh"} \/ lev' = <<"timeout", "ref">>]_vars

\* C10: every change of LocalActionState follows one of the six edges.
C10_AllowedEdges ==
    [][localSpinState' # localSpinState =>
         << localSpinState, localSpinState' >> \in
            { <<"idle", "pending">>, <<"pending", "confirming">>,
              <<"confirming", "waiting_vrf">>, <<"waiting_vrf", "idle">>,
              <<"confirming", "idle">>, <<"pending", "idle">> }]_vars

\* The id under which the log of block b is applied.
LogId(b) == IF LogAt(b).kind = "Spin" THEN SpinId(LogAt(b)) ELSE WinId(LogAt(b))

\* Block b lies in the window of a first poll (which applies the latest Win
\* only).
Backfilled(b) == \E m \in ended : m[1] = "backfill" /\ b <= m[2]

C12_FailedPollChangesNothing ==
    [][\A p \in Pollers :
         PollFetchFail(p)
         => /\ UNCHANGED << activeSpin, lastWin, isGlobalSpinning,
                            showWinResult, spinTimeoutRef, winDisplayRef,
                            lastProcessedBlockRef >>
            /\ pc[p] = "winLogs" =>
                 getLogs("Spin", fromBlk[p], curBlock[p]) = <<>>]_vars

\* C13: an active spin and a highlighted win never hold together.
C13_SpinXorHighlight == ~(activeSpin # None /\ showWinResult)

\* C13 witness: a spin is active while the last win, applied as new before
\* it, is no longer highlighted though its display timeout is still armed.
C13_Witness ==
    /\ activeSpin # None
    /\ lastWin # None
    /\ lastWin[1].epochId < activeSpin[1].epochId
    /\ winDisplayRef
    /\ ~showWinResult

\* C14: whenever LocalActionState is not idle it eventually returns to
\* idle, whatever fails and also when no receipt ever arrives.
C14_EventuallyIdle == (localSpinState # "idle") ~> (localSpinState = "idle")

\* One whole application of a Spin log by the polling form: processSpinEvent
\* to its await and from it, with the outcome ok of the lookup.
applySpin(g, l, ok) == processSpinEventResume(processSpinEvent(g, l), l, ok)

\* One whole application of a Win log by the polling form: the dedup check,
\* then processWinEvent to its await and the patch after it.
applyWin(g, l, isNew, ok) ==
    IF IsDupWin(g, l) THEN g
    ELSE PatchWinUser(processWinEvent(g, l, isNew), WinId(l), ok)

applyLog(g, l, isNew, ok) ==
    IF l.kind = "Spin" THEN applySpin(g, l, ok) ELSE applyWin(g, l, isNew, ok)

\* activeSpin, lastWin, isLive, showWinHighlight and the armed timers of g.
Visible(g) ==
    [activeSpin |-> g.activeSpin, lastWin |-> g.lastWin,
     isGlobalSpinning |-> g.isGlobalSpinning,
     showWinResult |-> g.showWinResult,
     spinTimeoutRef |-> g.spinTimeoutRef, winDisplayRef |-> g.winDisplayRef]

\* C15: in every state, applying a Spin or a Win log twice in immediate
\* succession leaves activeSpin, lastWin, isLive, showWinHighlight and the
\* armed timers as applying it once does, whatever the lookups return.
C15_Idempotent ==
    \A b \in 1..MaxBlock, isNew \in BOOLEAN, ok1 \in BOOLEAN, ok2 \in BOOLEAN :
        LET once == applyLog(GS, LogAt(b), isNew, ok1)
            twice == applyLog(once, LogAt(b), isNew, ok2)
        IN Visible(twice) = Visible(once)

\* The state in which the polling form would be where the push form is: its
\* lastWinIdRef holds the id of the last applied win.
AsPolled ==
    [GS EXCEPT !.lastWinIdRef =
                  IF lastWin = None THEN None ELSE Some(lastWin[1].id)]

\* What the polled Apply routines make of the log of block b in that state,
\* up to their await.
PolledApply(b) ==
    IF LogAt(b).kind = "Spin" THEN processSpinEvent(AsPolled, LogAt(b))
    ELSE IF IsDupWin(AsPolled, LogAt(b)) THEN AsPolled
    ELSE processWinEvent(AsPolled, LogAt(b), TRUE)

\* C16: a push handler leaves GlobalActivityState (activeSpin, lastWin,
\* isLive, showWinHighlight) as the polled Apply routine would leave it for
\* the same log in the same state, the dedup check included.
C16_OneApplicationPath ==
    [][\A b \in 1..MaxBlock :
         (PushSpin(b) \/ PushWin(b))
         => /\ activeSpin' = PolledApply(b).activeSpin
            /\ lastWin' = PolledApply(b).lastWin
            /\ isGlobalSpinning' = PolledApply(b).isGlobalSpinning
            /\ showWinResult' = PolledApply(b).showWinResult]_vars

\* C17: identity resolution never blocks the engine: also when a lookup
\* never completes, a poll suspended on it ends (and sets the cursor), and
\* an active spin is eventually cleared by its liveness timeout.
C17_LookupNeverBlocks ==
    /\ \A p \in Pollers :
          (pc[p] \in {"bfUser", "spinUser", "winUser"}) ~> (pc[p] = "idle")
    /\ (activeSpin # None) ~> (activeSpin = None)

\* C18: a liveness timeout that belongs to a Spin applied before a Win never
\* fires after that Win has been applied, also when the Win was applied
\* while the lookup of the Spin was pending.
C18_WinCancelsTimeout == [][SpinTimeoutFire => ~stale.timer]_vars

\* C19: an applied Spin is never shown for ever: once a Spin is active,
\* the liveness timeout eventually leaves activeSpin none and isLive false.
C19_SpinEventuallyCleared ==
    (activeSpin # None) ~> (activeSpin = None /\ ~isGlobalSpinning)

\* What the spec says of a state g reached from state h by applying the Win
\* l with the flag isNew.
WinApplied(h, g, l, isNew) ==
    /\ g.activeSpin = None
    /\ ~g.isGlobalSpinning
    /\ g.lastWin = Some(newWin(l))
    /\ isNew => g.showWinResult /\ g.winDisplayRef
    /\ ~isNew => /\ g.showWinResult = h.showWinResult
                 /\ g.winDisplayRef = h.winDisplayRef

\* The step in which poll p applies a Win: it suspends on that Win's lookup.
AppliesWin(p) ==
    /\ \/ BackfillLogs(p)
       \/ WinLogs(p)
       \/ \E ok \in BOOLEAN : WinUser(p, ok)
    /\ pc'[p] \in {"bfUser", "winUser"}

\* C20: applying a Win whose id is not the last applied one leaves
\* activeSpin none, isLive false and lastWin that Win; the highlight is set
\* and the display timeout armed exactly when isNew holds, and the highlight
\* is left as it was when isNew does not hold. Stated of processWinEvent in
\* every reachable state, and of every step of a poll that applies a Win.
C20_WinApplication ==
    /\ [](\A b \in 1..MaxBlock, isNew \in BOOLEAN :
            (LogAt(b).kind = "Win" /\ ~IsDupWin(GS, LogAt(b)))
            => WinApplied(GS, processWinEvent(GS, LogAt(b), isNew),
                          LogAt(b), isNew))
    /\ [][\A p \in Pollers :
            AppliesWin(p)
            => /\ lastWinIdRef # Some(WinId(item'[p][1]))
               /\ WinApplied(GS, [GS EXCEPT
                                   !.activeSpin = activeSpin',
                                   !.isGlobalSpinning = isGlobalSpinning',
                                   !.lastWin = lastWin',
                                   !.showWinResult = showWinResult',
                                   !.winDisplayRef = winDisplayRef'],
                             item'[p][1], pc'[p] = "winUser")]_vars

\* C20 witness: a poll has applied a new Win over the active spin of its
\* epoch and waits for the lookup; the highlight is shown, its timeout armed.
C20_Witness ==
    \E p \in Pollers :
        /\ pc[p] = "winUser"
        /\ lastWin = Some(newWin(item[p][1]))
        /\ <<"spin", item[p][1].spinner, item[p][1].epochId>> \in applied
        /\ activeSpin = None /\ ~isGlobalSpinning
        /\ showWinResult /\ winDisplayRef

\* C21: the display timeout changes showWinHighlight only (lastWin,
\* activeSpin, isLive and the cursor stay as they are when it fires), and
\* lastWin, once set, never becomes none again.
C21_DisplayTimeoutFrame ==
    /\ [][WinDisplayFire
            => UNCHANGED << lastWin, activeSpin, isGlobalSpinning,
                            lastProcessedBlockRef >>]_vars
    /\ [][lastWin # None => lastWin' # None]_vars

\* C21 witness: every poll has ended, the win shown lies above every
\* backfill cursor (a normal poll applied it as new and armed the display
\* timeout), and the timeout has fired: the highlight is off, the win stays.
C21_Witness ==
    /\ impl = "poll"
    /\ \A p \in Pollers : pc[p] = "idle"
    /\ lastWin # None
    /\ \E m \in ended : m[1] = "backfill"
    /\ \A m \in ended : m[1] = "backfill" => m[2] < lastWin[1].id[4]
    /\ ~winDisplayRef
    /\ ~showWinResult

\* An occurrence o patched by a lookup requested for id: the user is set if
\* o is the occurrence of that id, and o is returned as it is otherwise.
Patched(o, id) ==
    IF o # None /\ o[1].id = id
    THEN {o, Some([o[1] EXCEPT !.user = TRUE])}
    ELSE {o}

\* The win fetchRecentWin applied: the latest of its lookback window.
fetchRecentLatest ==
    LET fromBlock == frwBlock - LOOKBACK_PUSH
        logs == getLogs("Win", IF fromBlock > 0 THEN fromBlock ELSE 0, frwBlock)
    IN logs[Len(logs)]

\* A step in which the lookup of a spin resolves and nothing else is
\* applied leaves activeSpin patched for that spin's id, and lastWin alone.
SpinLookupEnds ==
    /\ \A p \in Pollers, ok \in BOOLEAN :
          (SpinUser(p, ok) /\ queue[p] = <<>>)
          => /\ activeSpin' \in Patched(activeSpin, SpinId(item[p][1]))
             /\ lastWin' = lastWin
    /\ \A b \in 1..MaxBlock, ok \in BOOLEAN :
          (PushResume(b, ok) /\ LogAt(b).kind = "Spin")
          => /\ activeSpin' \in Patched(activeSpin, SpinId(LogAt(b)))
             /\ lastWin' = lastWin

\* The same for the lookup of a win.
WinLookupEnds ==
    /\ \A p \in Pollers, ok \in BOOLEAN :
          (BackfillUser(p, ok) \/ (WinUser(p, ok) /\ pc'[p] = "idle"))
          => /\ lastWin' \in Patched(lastWin, WinId(item[p][1]))
             /\ activeSpin' = activeSpin
    /\ \A b \in 1..MaxBlock, ok \in BOOLEAN :
          (PushResume(b, ok) /\ LogAt(b).kind = "Win")
          => /\ lastWin' \in Patched(lastWin, WinId(LogAt(b)))
             /\ activeSpin' = activeSpin
    /\ \A ok \in BOOLEAN :
          FetchRecentUser(ok)
          => /\ lastWin' \in Patched(lastWin, WinId(fetchRecentLatest))
             /\ activeSpin' = activeSpin

\* C22: a lookup result is patched into activeSpin or lastWin only if the
\* occurrence of the id it was requested for is the current one; otherwise
\* it changes nothing, and a patch changes the user field only. Stated of
\* the two patch functions in every reachable state and for every id, and
\* of every step in which a lookup resolves.
C22_PatchOnlyCurrent ==
    /\ [](\A b \in 1..MaxBlock, ok \in BOOLEAN :
            LET l == LogAt(b)
                s == PatchSpinUser(GS, SpinId(l), ok)
                w == PatchWinUser(GS, WinId(l), ok)
            IN /\ s.activeSpin \in Patched(activeSpin, SpinId(l))
               /\ [s EXCEPT !.activeSpin = activeSpin] = GS
               /\ ~ok => s = GS
               /\ w.lastWin \in Patched(lastWin, WinId(l))
               /\ [w EXCEPT !.lastWin = lastWin] = GS
               /\ ~ok => w = GS)
    /\ [][SpinLookupEnds /\ WinLookupEnds]_vars

\* C22 witness: the lookup of a spin that a Win had cleared has resolved
\* (its timeout is armed, activeSpin is still none) and the lookup of the
\* win shown has been patched in.
C22_Witness ==
    /\ stale.timer
    /\ activeSpin = None
    /\ lastWin # None
    /\ lastWin[1].user

\* The lookback window of a first poll that read currentBlock c.
BackfillWindow(c) ==
    LET fromBlock == c - LOOKBACK_POLL
    IN [from |-> IF fromBlock > 0 THEN fromBlock ELSE 0, to |-> c]

\* C23: the backfill poll fetches Win logs only and applies at most one
\* occurrence, the latest Win of its window. After the first poll
\* activeSpin is none and isLive false whatever Spins the window holds,
\* and lastWin is the last Win of the window, or none without one; a
\* first poll never goes on to fetch Spin logs, and a backfill step adds
\* nothing but that Win to what has been applied.
C23_BackfillOnlyLatestWin ==
    /\ [](C6_FirstPollDone =>
            LET w == BackfillWindow(lastProcessedBlockRef[1])
                winLogs == getLogs("Win", w.from, w.to)
            IN /\ activeSpin = None
               /\ ~isGlobalSpinning
               /\ spinTimeoutRef = None
               /\ IF winLogs = <<>>
                  THEN lastWin = None /\ applied = {}
                  ELSE /\ lastWin # None
                       /\ lastWin[1].id = WinId(winLogs[Len(winLogs)])
                       /\ applied = {WinId(winLogs[Len(winLogs)])})
    /\ [][\A p \in Pollers :
            /\ (PollTick(p) /\ lastProcessedBlockRef = None)
               => /\ pc'[p] = "bfLogs"
                  /\ fromBlk'[p] = BackfillWindow(head).from
                  /\ curBlock'[p] = head
            /\ BackfillLogs(p)
               => LET winLogs == getLogs("Win", fromBlk[p], curBlock[p])
                  IN /\ pc'[p] \in {"idle", "bfUser"}
                     /\ activeSpin' = None \/ activeSpin' = activeSpin
                     /\ applied' \subseteq
                          applied \cup {WinId(winLogs[i]) :
                                          i \in {Len(winLogs)} \ {0}}
            /\ (\E ok \in BOOLEAN : BackfillUser(p, ok))
               => /\ pc'[p] = "idle"
                  /\ activeSpin' = activeSpin
                  /\ applied' = applied]_vars

\* C23 witness: the first poll has ended; its window held two Spins and
\* Wins, the latest Win is shown and no spin is active.
C23_Witness ==
    /\ C6_FirstPollDone
    /\ lastProcessedBlockRef[1] >= 3
    /\ getLogs("Spin", 0, lastProcessedBlockRef[1]) # <<>>
    /\ lastWin # None
    /\ activeSpin = None /\ ~isGlobalSpinning
    /\ applied = {lastWin[1].id}

\* C24: a poll tick that finds lastProcessedBlock + 1 > currentBlock is a
\* no-op: it fetches no logs and leaves the cursor, activeSpin, lastWin,
\* isLive, showWinHighlight and the timers as they are.
C24_NoNewBlockNoop ==
    [][\A p \in Pollers :
         (/\ PollTick(p)
          /\ lastProcessedBlockRef # None
          /\ lastProcessedBlockRef[1] + 1 > head)
         => /\ UNCHANGED << pc, curBlock, fromBlk, queue, item >>
            /\ UNCHANGED << lastProcessedBlockRef, activeSpin, lastWin,
                            isGlobalSpinning, showWinResult, spinTimeoutRef,
                            winDisplayRef, lastWinIdRef, applied >>]_vars

\* C24 witness: a tick has returned without a fetch at the present head,
\* with a win shown and the cursor at the head.
C24_Witness ==
    /\ NoopMark(head) \in ended
    /\ lastProcessedBlockRef = Some(head)
    /\ lastWin # None
    /\ \A p \in Pollers : pc[p] = "idle"

\* C25: on a reverted receipt LocalActionState goes from confirming to
\* idle at once, the balance snapshot is cleared, and neither the hard
\* timeout nor the balance-poll interval is armed.
C25_RevertedResets ==
    [][ReceiptArrives("reverted")
        => /\ localSpinState = "confirming"
           /\ localSpinState' = "idle"
           /\ preSpinBalanceRef' = None
           /\ vrfTimeoutRef' # "armed" /\ leakedVrf' = 0
           /\ balancePollRef' # "armed" /\ leakedPolls' = 0]_vars

\* A step in which handleSpin call h runs its catch: no connector,
\* connectAsync rejected, or writeContract thrown.
SubmitThrows(h) ==
    \/ /\ HandleSpin(h, FALSE)
       /\ rigState # None /\ localSpinState = "idle" /\ address = None
    \/ ConnectReturn(h, FALSE)
    \/ WriteReturn(h, FALSE)

\* No detector of a resolution is armed: neither a hard timeout nor a
\* balance interval runs, and the push watcher is not enabled.
NoDetectorArmed(l) ==
    /\ l.vrfTimeoutRef # "armed" /\ l.leakedVrf = 0
    /\ l.balancePollRef # "armed" /\ l.leakedPolls = 0
    /\ l.localSpinState # "waiting_vrf"

\* C26: when the wallet connection or the submission throws during a
\* submit, LocalActionState is idle afterwards, the pending write is
\* discarded and no detector is armed.
C26_ThrowResets ==
    [][\A h \in Callers :
         SubmitThrows(h)
         => /\ localSpinState' = "idle"
            /\ ~txHash' /\ receipt' = "none"
            /\ NoDetectorArmed(LS')]_vars

\* A step in which a detector resolves the action out of waiting_vrf: the
\* push watcher matches a log, the balance effect sees a higher balance
\* (after a refresh, or right after the receipt effect has set
\* waiting_vrf), or a hard timeout fires.
DetectorResolves ==
    \/ \E a \in Addr, e \in 1..MaxEpoch :
          PageWinLog(a, e) /\ pushMatches(LS, a, address)
    \/ /\ \E b \in 0..MaxBalance, e \in 1..MaxEpoch : Refresh(b, e)
       /\ balanceDetects(LS, rigState')
    \/ /\ ReceiptArrives("success")
       /\ balanceDetects(receiptSuccess(LS), rigState)
    \/ /\ \E which \in {"ref", "leaked"} : VrfTimeoutFires(which)
       /\ localSpinState = "waiting_vrf"

\* C27: whichever detector resolves the action, the state is idle
\* afterwards, no hard timeout and no balance interval stays armed, the
\* balance snapshot is cleared and a refresh of rigState is requested.
C27_ResolutionCleansUp ==
    [][DetectorResolves
        => /\ localSpinState' = "idle"
           /\ NoDetectorArmed(LS')
           /\ preSpinBalanceRef' = None
           /\ refetchRequested']_vars

\* C28: whenever LocalActionState is waiting_vrf, pendingEpochId is set,
\* the balance snapshot is not null and the three detectors are armed: the
\* hard timeout, the balance interval and the enabled push watcher.
C28_AwaitingFullyArmed ==
    localSpinState = "waiting_vrf"
    => /\ pendingEpochId # None
       /\ preSpinBalanceRef # None
       /\ vrfTimeoutRef = "armed"
       /\ balancePollRef = "armed"
       /\ address # None

\* The balance b is strictly above the snapshot held in preSpinBalanceRef.
AboveSnapshot(b) == preSpinBalanceRef # None /\ b > preSpinBalanceRef[1]

\* C29: the balance-delta detector resolves the action exactly when the
\* state is waiting_vrf and a refreshed balance is strictly above the
\* snapshot: such a refresh leads to idle with the snapshot cleared, and a
\* refresh with a balance equal to or below the snapshot (or with no
\* snapshot), or in another state, changes nothing of the action. The
\* balance known when the receipt effect enters waiting_vrf counts alike.
C29_BalanceDeltaExact ==
    /\ [][(\E b \in 0..MaxBalance, e \in 1..MaxEpoch : Refresh(b, e))
            => IF /\ localSpinState = "waiting_vrf"
                  /\ AboveSnapshot(rigState'[1].unitBalance)
               THEN /\ localSpinState' = "idle"
                    /\ preSpinBalanceRef' = None
                    /\ resolved' = Some([by |-> "balance",
                                         snap |-> preSpinBalanceRef])
               ELSE UNCHANGED << detectorState, txHash, receipt,
                                 resolved >>]_vars
    /\ [][ReceiptArrives("success")
            => IF rigState # None /\ AboveSnapshot(rigState[1].unitBalance)
               THEN localSpinState' = "idle" /\ preSpinBalanceRef' = None
               ELSE /\ localSpinState' = "waiting_vrf"
                    /\ UNCHANGED preSpinBalanceRef]_vars

\* C29 witness: a refresh showed a balance above the snapshot and the
\* balance effect resolved the action.
C29_Witness ==
    /\ localSpinState = "idle"
    /\ lev[1] = "refresh"
    /\ resolved # None
    /\ resolved[1].by = "balance"
    /\ resolved[1].snap # None
    /\ rigState[1].unitBalance > resolved[1].snap[1]
    /\ preSpinBalanceRef = None

\* What a submit belongs to: the action's state, its snapshot and epoch,
\* its detectors and its pending write.
actionState == << detectorState, txHash, receipt, resolved >>

\* C30: at most one action is in flight. A submit requested outside idle
\* or without rigState (the price unknown) changes nothing; of two submit
\* requests suspended on the wallet connection at most one submits a
\* transaction, and the other cannot reset the action that proceeded: a
\* call that resumes from connectAsync finds the state idle, and a call
\* that resumes from writeContract finds the pending state it has set.
C30_OneActionInFlight ==
    /\ [][\A h \in Callers, connector \in BOOLEAN :
            (HandleSpin(h, connector)
             /\ (rigState = None \/ localSpinState # "idle"))
            => UNCHANGED << actionState, hpc, hsnap, address >>]_vars
    /\ [](Cardinality({h \in Callers : hpc[h] = "writing"}) <= 1)
    /\ [][\A h \in Callers, ok \in BOOLEAN :
            /\ ConnectReturn(h, ok) => localSpinState = "idle"
            /\ WriteReturn(h, ok) => localSpinState = "pending"]_vars

\* C31: after teardown no timer or interval remains armed and none fires
\* (liveness timeout, display timeout, poll interval, hard timeout, balance
\* interval), also when the teardown happens while an Apply routine is
\* suspended on its lookup and has not armed its timer yet.
C31_TeardownCancelsAll ==
    /\ [](torn => /\ spinTimeoutRef = None
                  /\ ~winDisplayRef
                  /\ vrfTimeoutRef # "armed" /\ leakedVrf = 0
                  /\ balancePollRef # "armed" /\ leakedPolls = 0)
    /\ [][torn => ~(\/ SpinTimeoutFire
                    \/ WinDisplayFire
                    \/ \E p \in Pollers : PollTick(p) \/ PollBlockFail(p))]_vars

\* The prize pool display of the page on its own.
PrizePoolNext ==
    \/ \E pool \in 0..MaxPool, pending \in 0..MaxPool, ups \in 0..MaxRate :
          PoolRefresh(pool, pending, ups)
    \/ PoolTick

PrizePoolSpec == LifecycleInit /\ [][PrizePoolNext]_vars

\* C32: between two reads of getRig the displayed prize pool after k ticks
\* of one second is lastAuthoritative + rate * k, for every
\* lastAuthoritative >= 0 and every rate > 0, with lastAuthoritative =
\* prizePool + pendingEmissions; a new read resets it to the new value, and
\* between reads it never decreases.
C32_Interpolation ==
    /\ []((poolRig # None /\ poolRig[1].ups > 0)
           => interpolatedPrizePool =
                Some(totalPool(poolRig[1]) + poolRig[1].ups * secondsElapsed))
    /\ [][poolRig' # poolRig
            => interpolatedPrizePool' = Some(totalPool(poolRig'[1]))]_vars
    /\ [][PoolTick => interpolatedPrizePool'[1] >= interpolatedPrizePool[1]]_vars

\* C33: when LocalActionState is idle no record of a finished action
\* remains: the balance snapshot is null and neither the hard timeout nor
\* the balance interval is armed, after every terminal transition, the
\* error path of the submission included.
C33_IdleIsClean ==
    localSpinState = "idle"
    => /\ preSpinBalanceRef = None
       /\ vrfTimeoutRef # "armed" /\ leakedVrf = 0
       /\ balancePollRef # "armed" /\ leakedPolls = 0

\* C34: in every reachable state of the ingestion hook isLive
\* (isGlobalSpinning) holds exactly when activeSpin is not none; a liveness
\* timeout armed for an earlier Spin that fires while another Spin is
\* active changes neither activeSpin nor isLive.
C34_LiveIffActiveSpin ==
    /\ [](isGlobalSpinning <=> activeSpin # None)
    /\ [][(/\ SpinTimeoutFire
           /\ activeSpin # None
           /\ activeSpin[1].id # spinTimeoutRef[1])
          => UNCHANGED << activeSpin, isGlobalSpinning >>]_vars

\* C35: the push-match detector resolves the pending action only for a
\* Win that belongs to it: a pushed Win of the local actor whose epochId
\* differs from pendingEpochId does not move the state from waiting_vrf to
\* idle.
C35_PushMatchesEpoch ==
    [][\A a \in Addr, e \in 1..MaxEpoch :
         (/\ PageWinLog(a, e)
          /\ localSpinState = "waiting_vrf"
          /\ pendingEpochId # Some(e))
         => localSpinState' = "waiting_vrf"]_vars

\* The hard timeouts and the balance intervals that are armed: the one the
\* ref holds and those stored over.
armedVrfTimeouts == leakedVrf + (IF vrfTimeoutRef = "armed" THEN 1 ELSE 0)
armedBalancePolls == leakedPolls + (IF balancePollRef = "armed" THEN 1 ELSE 0)

\* C36: at any moment at most one timer of each kind is armed (liveness
\* timeout, display timeout, hard timeout, balance interval), and arming a
\* new one cancels the one armed before: the receipt effect leaves no
\* timeout and no interval behind the ones it arms.
C36_OneTimerPerKind ==
    /\ [](armedVrfTimeouts <= 1 /\ armedBalancePolls <= 1)
    /\ [][ReceiptArrives("success")
            => leakedVrf' = leakedVrf /\ leakedPolls' = leakedPolls]_vars

\* The lookback window of fetchRecentWin when it read currentBlock c.
FetchRecentWindow(c) ==
    LET fromBlock == c - LOOKBACK_PUSH
    IN [from |-> IF fromBlock > 0 THEN fromBlock ELSE 0, to |-> c]

\* A window is [max(0, c - lookback), c].
ClampedWindow(w, c, lookback) ==
    /\ w.to = c
    /\ w.from >= 0
    /\ w.from = IF c - lookback >= 0 THEN c - lookback ELSE 0

\* C37: the backfill range never starts below block 0: fromBlock is
\* max(0, currentBlock - LOOKBACK). With currentBlock = 1000, below the
\* lookback, the range is [0, 1000] and holds block 950; the first poll and
\* fetchRecentWin ask for that range and apply the latest Win in it.
C37_WindowClamped ==
    /\ [](\A c \in {head, YoungChainBlock, LOOKBACK_PUSH + head,
                     LOOKBACK_POLL + head} :
            /\ ClampedWindow(BackfillWindow(c), c, LOOKBACK_POLL)
            /\ ClampedWindow(FetchRecentWindow(c), c, LOOKBACK_PUSH))
    /\ [](\A w \in {BackfillWindow(YoungChainBlock),
                     FetchRecentWindow(YoungChainBlock)} :
            /\ w = [from |-> 0, to |-> YoungChainBlock]
            /\ YoungChainWinBlock \in w.from..w.to)
    /\ [][\A p \in Pollers :
            /\ (PollTick(p) /\ lastProcessedBlockRef = None)
               => /\ fromBlk'[p] = BackfillWindow(head).from
                  /\ fromBlk'[p] >= 0
            /\ (BackfillLogs(p) /\ pc'[p] = "bfUser")
               => \A b \in 1..curBlock[p] :
                    LogAt(b).kind = "Win" => lastWin'[1].id[4] >= b]_vars
    /\ [][(FetchRecentLogs /\ frwPc' = "user")
            => \A b \in 1..frwBlock :
                 LogAt(b).kind = "Win" => lastWin'[1].id[4] >= b]_vars

\* C37 witness: a first poll whose currentBlock lies below the lookback
\* asked for the range from block 0 and found the latest Win in it.
C37_Witness ==
    \E p \in Pollers :
        /\ pc[p] = "bfUser"
        /\ curBlock[p] - LOOKBACK_POLL < 0
        /\ fromBlk[p] = 0
        /\ curBlock[p] >= 2
        /\ lastWin = Some(newWin(item[p][1]))
        /\ item[p][1].blockNumber >= curBlock[p] - 1

\* The odds values of the symbol table, and the odds values looked up: the
\* table's, their neighbours, zero and the odds the chain's wins carry.
TableOdds == {SLOT_SYMBOLS[i].oddsBps : i \in DOMAIN SLOT_SYMBOLS}
LookedUpOdds ==
    TableOdds \cup {o - 1 : o \in TableOdds} \cup {o + 1 : o \in TableOdds}
              \cup {0} \cup {OddsOf(e) : e \in 1..MaxEpoch}

\* What the lookup is to return for an odds value.
SymbolFor(oddsBps) ==
    IF oddsBps \in TableOdds
    THEN CHOOSE s \in {SLOT_SYMBOLS[i] : i \in DOMAIN SLOT_SYMBOLS} :
             s.oddsBps = oddsBps
    ELSE SLOT_SYMBOLS[1]

\* C38: getSymbolFromOdds returns, for each odds value of the symbol table,
\* the symbol with that oddsBps (5000 gives the jackpot tier) and for every
\* other odds value the first table entry (Cherry, tier small); it always
\* returns a table entry, and the displayed win carries the symbol of its
\* odds.
C38_SymbolLookup ==
    /\ \A o \in LookedUpOdds :
          /\ getSymbolFromOdds(o) = SymbolFor(o)
          /\ \E i \in DOMAIN SLOT_SYMBOLS : getSymbolFromOdds(o) = SLOT_SYMBOLS[i]
          /\ o \in TableOdds => getSymbolFromOdds(o).oddsBps = o
          /\ o \notin TableOdds
             => /\ getSymbolFromOdds(o).name = "Cherry"
                /\ getSymbolFromOdds(o).tier = "small"
    /\ TableOdds = {100, 200, 500, 1000, 2500, 5000}
    /\ getSymbolFromOdds(5000).tier = "jackpot"
    /\ lastWin # None => lastWin[1].symbol = SymbolFor(lastWin[1].oddsBps)

\* C38 witness: a win whose odds are not in the table is displayed with the
\* first table entry, after a win with table odds was displayed as such.
C38_Witness ==
    /\ lastWin # None
    /\ lastWin[1].oddsBps \notin TableOdds
    /\ lastWin[1].symbol.name = "Cherry"
    /\ \E id \in applied : id[1] = "win" /\ OddsOf(id[3]) \in TableOdds

====
